---------------------------- MODULE Spec2Model ----------------------------
(***************************************************************************)
(* The authorize() middleware of src/authorize.ts: credential extraction,  *)
(* cache-backed verification of the credential against the identity       *)
(* provider, settings parsing, glob path scoping, the access decision and  *)
(* the 401 / 403 / next() outcome.                                         *)
(***************************************************************************)
EXTENDS Integers, Sequences, FiniteSets, TLC

(***************************************************************************)
(* Bound of the model.                                                      *)
(***************************************************************************)
\* memoryCache `max`, scaled down (the program's default is 1000 entries)
CacheMax == 1

(***************************************************************************)
(* The options memoryCache is created with (lines 12-18).  A value of      *)
(* process.env is undefined or a string; Number.isInteger does not convert *)
(* its argument and is true of numbers only.                               *)
(***************************************************************************)
DefaultCacheSize == 1000
DefaultTtlMinutes == 10

Unset == [t |-> "undefined", text |-> "", int |-> FALSE, n |-> 0]
Str(text) == [t |-> "string", text |-> text, int |-> FALSE, n |-> 0]
Num(n) == [t |-> "number", text |-> "", int |-> TRUE, n |-> n]
NotInteger == [t |-> "number", text |-> "", int |-> FALSE, n |-> 0]

\* the values an environment variable is given
EnvValues ==
  { Unset, Str(""), Str("1"), Str("5"), Str("10"), Str("2000"), Str("2.5"), Str("abc") }

\* Number(value): of undefined NaN, of a string the number it spells
Number(v) ==
  CASE v.t = "number" -> v
    [] v.t = "string" /\ v.text = "" -> Num(0)
    [] v.t = "string" /\ v.text = "1" -> Num(1)
    [] v.t = "string" /\ v.text = "5" -> Num(5)
    [] v.t = "string" /\ v.text = "10" -> Num(10)
    [] v.t = "string" /\ v.text = "2000" -> Num(2000)
    [] OTHER -> NotInteger

\* Number.isInteger(value)
NumberIsInteger(v) == v.t = "number" /\ v.int

NotCreated == [created |-> FALSE, max |-> 0, ttl |-> 0]

\* the options of caching('memory', ...)
CacheOptions(pe) ==
  [created |-> TRUE,
   max |-> IF NumberIsInteger(pe.AUTH_CACHE_SIZE)
           THEN Number(pe.AUTH_CACHE_SIZE).n ELSE DefaultCacheSize,
   ttl |-> (IF NumberIsInteger(pe.AUTH_CATCH_TTL_MINUTES)
            THEN Number(pe.AUTH_CATCH_TTL_MINUTES).n ELSE DefaultTtlMinutes) * 60 * 1000]

\* no variable of the cache is set
NoProcessEnv == [AUTH_CACHE_SIZE |-> Unset, AUTH_CATCH_TTL_MINUTES |-> Unset]

(***************************************************************************)
(* Configuration and the values the model draws its inputs from.           *)
(***************************************************************************)
serviceApiKey == "svc"
resourceIamId == "iam-resource"

\* request slots
Reqs == {"r1", "r2"}
\* non-empty credentials a caller may present
Keys == {"svc", "k1"}
MinAccesses == {"read", "write", "owner"}

\* a path is request.path.substring(1) split at "/"
Paths == {<<"a", "file">>, <<"a", "secret", "file">>, <<"b", "file">>}

Absent == "<absent>"

(***************************************************************************)
(* JSON.parse of an Apikey description.  A description is a text; the      *)
(* texts below stand for the JSON documents named in the comments (with    *)
(* double quotes around the names and the strings).                        *)
(***************************************************************************)
NoVal == [t |-> "undefined", items |-> <<>>]
StrVal(p) == [t |-> "string", items |-> <<[str |-> TRUE, pat |-> p]>>]
ArrVal(s) == [t |-> "array", items |-> s]
StrItem(p) == [str |-> TRUE, pat |-> p]
NumItem == [str |-> FALSE, pat |-> <<>>]

\* the value of `settings`: null (also "no settings") or a parsed object
NullSettings == [kind |-> "null", access |-> "undefined", include |-> NoVal, exclude |-> NoVal]
Obj(a, i, e) == [kind |-> "object", access |-> a, include |-> i, exclude |-> e]
NoSettings == [kind |-> "undefined", access |-> "undefined", include |-> NoVal, exclude |-> NoVal]

Descriptions ==
  { "",                                          \* no description
    "not json",                                  \* not a JSON document
    "null",                                      \* the JSON null
    "{access:write}",
    "{access:admin}",
    "{include:[a/*],exclude:[a/secret/*]}",
    "{access:write,include:[a/*,7]}",
    "{exclude:a/secret/*}" }

JSONparse(d) ==
  CASE d = "null" -> [ok |-> TRUE, value |-> NullSettings]
    [] d = "{access:write}" -> [ok |-> TRUE, value |-> Obj("write", NoVal, NoVal)]
    [] d = "{access:admin}" -> [ok |-> TRUE, value |-> Obj("admin", NoVal, NoVal)]
    [] d = "{include:[a/*],exclude:[a/secret/*]}" ->
         [ok |-> TRUE, value |-> Obj("undefined",
                                     ArrVal(<<StrItem(<<"a", "*">>)>>),
                                     ArrVal(<<StrItem(<<"a", "secret", "*">>)>>))]
    [] d = "{access:write,include:[a/*,7]}" ->
         [ok |-> TRUE, value |-> Obj("write", ArrVal(<<StrItem(<<"a", "*">>), NumItem>>), NoVal)]
    [] d = "{exclude:a/secret/*}" ->
         [ok |-> TRUE, value |-> Obj("undefined", NoVal, StrVal(<<"a", "secret", "*">>))]
    [] OTHER -> [ok |-> FALSE, value |-> NoSettings]

(***************************************************************************)
(* Apikey records: what the provider's details call yields.                *)
(***************************************************************************)
Key(iam, l, dis, desc) ==
  [kind |-> "key", iam_id |-> iam, locked |-> l, disabled |-> dis, description |-> desc]
Null == [kind |-> "null", iam_id |-> "", locked |-> FALSE, disabled |-> FALSE, description |-> ""]
Undefined == [kind |-> "undefined", iam_id |-> "", locked |-> FALSE, disabled |-> FALSE, description |-> ""]

\* the JSON bodies of a successful details response
Bodies ==
  { Key(resourceIamId, FALSE, FALSE, d) : d \in Descriptions } \cup
  { Key(resourceIamId, TRUE, FALSE, "{access:write}"),
    Key(resourceIamId, FALSE, TRUE, "{access:write}"),
    Key("iam-other", FALSE, FALSE, "{access:write}"),
    Null }

(***************************************************************************)
(* Minimatch.match(path, partial): segment by segment, "*" matches one     *)
(* segment; a path that ends before the pattern matches when partial.      *)
(***************************************************************************)
RECURSIVE matchOne(_, _, _)
matchOne(file, pattern, partial) ==
  IF file = <<>> /\ pattern = <<>> THEN TRUE
  ELSE IF file = <<>> THEN partial
  ELSE IF pattern = <<>> THEN Len(file) = 1 /\ file[1] = ""
  ELSE /\ (pattern[1] = "*" /\ file[1] # "") \/ pattern[1] = file[1]
       /\ matchOne(Tail(file), Tail(pattern), partial)


\* match.match(path, true) of a compiled pattern
Match(pattern, path) == matchOne(path, pattern, TRUE)

(***************************************************************************)
(* Credential extraction.  A header is the sequence of its pieces: the     *)
(* scheme prefix and the rest; <<>> is the absent header.                  *)
(***************************************************************************)
NoQuery == [t |-> "undefined", v |-> ""]
ArrayQuery == [t |-> "array", v |-> ""]
StringQuery(k) == [t |-> "string", v |-> k]
NoHeader == <<>>

\* the accessKey query parameter and the Authorization header of a request
HeaderRequests ==
  { [query |-> NoQuery, header |-> h] :
      h \in { NoHeader, <<"Bearer ", "">>, <<"Bearer ", "k1">>, <<"Digest ", "k1">>,
              <<"Basic ", "dXNlcjo=">>, <<"Basic ", "azE=">>, <<"Basic ", "dXNlcjprMQ==">>,
              <<"Basic ", "OnN2Yw==">> } }

QueryRequests ==
  { [query |-> ArrayQuery, header |-> <<"Bearer ", "k1">>],
    [query |-> StringQuery("k1"), header |-> NoHeader],
    [query |-> StringQuery("svc"), header |-> NoHeader],
    [query |-> StringQuery(""), header |-> <<"Bearer ", "k1">>],
    [query |-> StringQuery("k1"), header |-> <<"Bearer ", "svc">>] }

\* Buffer.from(text, "base64").toString("utf-8"), as the pieces of the text
Base64Decode(b) ==
  CASE b = "dXNlcjo=" -> <<"user", ":">>
    [] b = "azE=" -> <<"k1">>
    [] b = "dXNlcjprMQ==" -> <<"user", ":", "k1">>
    [] b = "OnN2Yw==" -> <<":", "svc">>
    [] OTHER -> <<>>

RECURSIVE Join(_)
Join(s) == IF s = <<>> THEN "" ELSE s[1] \o Join(Tail(s))

\* text.indexOf(":"), 0 when there is none
RECURSIVE IndexOfColon(_, _)
IndexOfColon(s, i) ==
  IF i > Len(s) THEN 0 ELSE IF s[i] = ":" THEN i ELSE IndexOfColon(s, i + 1)

AfterColon(s) ==
  LET p == IndexOfColon(s, 1)
  IN  IF p > 0 THEN SubSeq(s, p + 1, Len(s)) ELSE s

\* Extract that prefers the Authorization header to the query parameter
ExtractHeaderFirst(query, header) ==
  IF header # <<>> /\ header[1] = "Bearer "
  THEN [type |-> "authHeader", accessKey |-> Join(Tail(header))]
  ELSE IF header # <<>> /\ header[1] = "Basic "
       THEN [type |-> "authHeader", accessKey |-> Join(AfterColon(Base64Decode(header[2])))]
  ELSE IF query.t = "string" THEN [type |-> "accessKey", accessKey |-> query.v]
  ELSE [type |-> "authHeader", accessKey |-> ""]

\* the type and the accessKey after extraction; "" is "no credential"
Extract(query, header) ==
  IF query.t = "string" THEN [type |-> "accessKey", accessKey |-> query.v]
  ELSE IF header = <<>> THEN [type |-> "authHeader", accessKey |-> ""]
  ELSE IF header[1] = "Bearer " THEN [type |-> "authHeader", accessKey |-> Join(Tail(header))]
  ELSE IF header[1] = "Basic "
       THEN [type |-> "authHeader", accessKey |-> Join(AfterColon(Base64Decode(header[2])))]
  ELSE [type |-> "authHeader", accessKey |-> ""]

(***************************************************************************)
(* The verification chain on a record.                                     *)
(***************************************************************************)
IsOwner(accessKey) == accessKey = serviceApiKey

\* Rejected without the test of `locked`
RejectedIgnoringLocked(owner, apiKey) ==
  \/ apiKey.kind # "key"
  \/ apiKey.disabled
  \/ (~owner /\ apiKey.iam_id # resourceIamId)

Rejected(owner, apiKey) ==
  \/ apiKey.kind # "key"
  \/ apiKey.locked
  \/ apiKey.disabled
  \/ (~owner /\ apiKey.iam_id # resourceIamId)

\* ParseSettings that lets the parse error reject the request
ParseSettingsStrict(apiKey) ==
  IF apiKey.description = "" THEN [ok |-> FALSE, value |-> NoSettings]
  ELSE IF JSONparse(apiKey.description).ok THEN JSONparse(apiKey.description)
  ELSE [ok |-> TRUE, value |-> Obj("invalid", NoVal, NoVal)]

ParseSettings(apiKey) ==
  IF apiKey.description # "" THEN JSONparse(apiKey.description)
  ELSE [ok |-> FALSE, value |-> NoSettings]

RequestedAccess(owner, settings) ==
  IF owner THEN "write"
  ELSE IF settings.kind = "object" /\ settings.access # "undefined" THEN settings.access
  ELSE "read"

RECURSIVE StringPatterns(_)
StringPatterns(items) ==
  IF items = <<>> THEN <<>>
  ELSE IF items[1].str THEN <<items[1].pat>> \o StringPatterns(Tail(items))
  ELSE StringPatterns(Tail(items))

Matchers(settings, val) ==
  IF settings.kind # "object" THEN <<>>
  ELSE IF val.t = "string" THEN <<val.items[1].pat>>
  ELSE IF val.t = "array" THEN StringPatterns(val.items)
  ELSE <<>>

NoMatch == [kind |-> "undefined", inc |-> <<>>, exc |-> <<>>]

\* MakeMatch without the owner's bypass
MakeMatchForAll(owner, inc, exc) ==
  IF Len(inc) = 0 /\ Len(exc) = 0
  THEN [kind |-> "always", inc |-> <<>>, exc |-> <<>>]
  ELSE [kind |-> "rules", inc |-> inc, exc |-> exc]

MakeMatch(owner, inc, exc) ==
  IF owner \/ (Len(inc) = 0 /\ Len(exc) = 0)
  THEN [kind |-> "always", inc |-> <<>>, exc |-> <<>>]
  ELSE [kind |-> "rules", inc |-> inc, exc |-> exc]

\* PathAllowed as the conjunction of the include and the exclude condition
PathAllowedConjunction(m, path) ==
  \/ m.kind = "always"
  \/ /\ m.kind = "rules"
     /\ (Len(m.inc) = 0 \/ \E i \in 1..Len(m.inc) : Match(m.inc[i], path))
     /\ (Len(m.exc) = 0 \/ ~ \E j \in 1..Len(m.exc) : Match(m.exc[j], path))

\* authInfo.match(path)
PathAllowed(m, path) ==
  \/ m.kind = "always"
  \/ /\ m.kind = "rules"
     /\ \/ Len(m.inc) = 0
        \/ \E i \in 1..Len(m.inc) :
             \/ (Match(m.inc[i], path) /\ Len(m.exc) = 0)
             \/ ~ \E j \in 1..Len(m.exc) : Match(m.exc[j], path)

\* FinalAccess that stores the level the guard asks for
FinalAccessStoringMinAccess(minAccess, owner, access) ==
  IF minAccess = "owner" /\ ~owner THEN "none"
  ELSE IF access = "write" \/ (access = "read" /\ minAccess = "read") THEN minAccess
  ELSE "none"

\* FinalAccess that grants read whatever the guard asks for
FinalAccessAnyRead(minAccess, owner, access) ==
  IF minAccess = "owner" /\ ~owner THEN "none"
  ELSE IF access = "write" \/ access = "read" THEN access
  ELSE "none"

FinalAccess(minAccess, owner, access) ==
  IF minAccess = "owner" /\ ~owner THEN "none"
  ELSE IF access = "write" \/ (access = "read" /\ minAccess = "read") THEN access
  ELSE "none"

NoAuthInfo ==
  [set |-> FALSE, type |-> Absent, accessKey |-> Absent, apiKey |-> Undefined,
   settings |-> NoSettings, access |-> "none", match |-> NoMatch]

\* Check that parses the settings and builds the matcher before it rejects
CheckAttachingFirst(ai, apiKey, path, minAccess) ==
  LET owner == IsOwner(ai.accessKey)
      a1 == [ai EXCEPT !.apiKey = apiKey]
      parsed == ParseSettings(apiKey)
      settings == IF parsed.ok THEN parsed.value ELSE NullSettings
      a2 == IF parsed.ok THEN [a1 EXCEPT !.settings = parsed.value] ELSE a1
      access == RequestedAccess(owner, settings)
      match == MakeMatch(owner, Matchers(settings, settings.include),
                                Matchers(settings, settings.exclude))
      a3 == [a2 EXCEPT !.match = match]
  IN  IF Rejected(owner, apiKey) THEN a3
      ELSE IF access # "read" /\ access # "write" THEN a3
      ELSE IF ~PathAllowed(match, path) THEN a3
      ELSE [a3 EXCEPT !.access = FinalAccess(minAccess, owner, access)]

\* authInfo after lines 144-211, given the record of the credential
Check(ai, apiKey, path, minAccess) ==
  LET owner == IsOwner(ai.accessKey)
      a1 == [ai EXCEPT !.apiKey = apiKey]
      parsed == ParseSettings(apiKey)
      settings == IF parsed.ok THEN parsed.value ELSE NullSettings
      a2 == IF parsed.ok THEN [a1 EXCEPT !.settings = parsed.value] ELSE a1
      access == RequestedAccess(owner, settings)
      match == MakeMatch(owner, Matchers(settings, settings.include),
                                Matchers(settings, settings.exclude))
      a3 == [a2 EXCEPT !.match = match]
  IN  IF Rejected(owner, apiKey) THEN a1
      ELSE IF access # "read" /\ access # "write" THEN a2
      ELSE IF ~PathAllowed(match, path) THEN a3
      ELSE [a3 EXCEPT !.access = FinalAccess(minAccess, owner, access)]

\* Respond that answers every denial with forbidden()
RespondAlwaysForbidden(ai, allowUnauthorized) ==
  IF ai.access = "none" /\ ~allowUnauthorized THEN "403" ELSE "next"

\* Respond that does not look at allowUnauthorized
RespondIgnoringAllow(ai, allowUnauthorized) ==
  IF ai.access = "none"
  THEN IF ai.accessKey # Absent THEN "403" ELSE "401"
  ELSE "next"

\* Respond with the two denials exchanged
RespondSwapped(ai, allowUnauthorized) ==
  IF ai.access = "none" /\ ~allowUnauthorized
  THEN IF ai.accessKey # Absent THEN "401" ELSE "403"
  ELSE "next"

\* lines 214-228: what the guard does with the authInfo; "403" is forbidden(),
\* "401" is unauthorized() with its WWW-Authenticate: Basic header
Respond(ai, allowUnauthorized) ==
  IF ai.access = "none" /\ ~allowUnauthorized
  THEN IF ai.accessKey # Absent THEN "403" ELSE "401"
  ELSE "next"


(***************************************************************************)
(* memoryCache: the entries in order of use, the least recently used      *)
(* first.  An entry is stale once its ttl has elapsed.                     *)
(***************************************************************************)
RECURSIVE Without(_, _)
Without(c, k) ==
  IF c = <<>> THEN <<>>
  ELSE IF c[1].key = k THEN Without(Tail(c), k)
  ELSE <<c[1]>> \o Without(Tail(c), k)

Has(c, k) == \E i \in 1..Len(c) : c[i].key = k
Entry(c, k) == c[CHOOSE i \in 1..Len(c) : c[i].key = k]
Stale(e) == e.stale
Live(c, k) == Has(c, k) /\ ~Stale(Entry(c, k))

\* CacheGet that looks under a key that is never set
CacheGetWrongKey(c, k) == [value |-> Undefined, cache |-> c]

\* CacheGet that does not look at the ttl
CacheGetIgnoringTtl(c, k) ==
  IF ~Has(c, k) THEN [value |-> Undefined, cache |-> c]
  ELSE [value |-> Entry(c, k).value, cache |-> Without(c, k) \o <<Entry(c, k)>>]

\* memoryCache.get(key): the value (Undefined on a miss) and the cache after it
CacheGet(c, k) ==
  IF ~Has(c, k) THEN [value |-> Undefined, cache |-> c]
  ELSE IF Stale(Entry(c, k)) THEN [value |-> Undefined, cache |-> Without(c, k)]
  ELSE [value |-> Entry(c, k).value, cache |-> Without(c, k) \o <<Entry(c, k)>>]

\* CacheSet that keeps the value of an entry that is there
CacheSetKeepFirst(c, k, v) ==
  IF Has(c, k) THEN c
  ELSE LET d == c \o <<[key |-> k, value |-> v, stale |-> FALSE]>>
       IN  IF Len(d) > CacheMax THEN Tail(d) ELSE d

\* memoryCache.set(key, value)
CacheSet(c, k, v) ==
  LET d == Without(c, k) \o <<[key |-> k, value |-> v, stale |-> FALSE]>>
  IN  IF Len(d) > CacheMax THEN Tail(d) ELSE d

(***************************************************************************)
(* State.                                                                   *)
(***************************************************************************)
VARIABLES
  req,     \* per request slot: the request, its authInfo and where its guard stands
  cache,   \* memoryCache
  env,     \* the kind of run: "sequential", "requests", "concurrent" or "race"; never changes
  returned,   \* history: the <<credential, record>> answers of the provider so far
  processEnv, \* process.env: AUTH_CACHE_SIZE and AUTH_CATCH_TTL_MINUTES
  options     \* the options memoryCache was created with

vars == <<req, cache, env, returned, processEnv, options>>

\* one request at a time, every record, path and guard
Sequential ==
  [reqs |-> {"r1"},
   requests |-> { [query |-> NoQuery, header |-> NoHeader],
                  [query |-> NoQuery, header |-> <<"Bearer ", "k1">>],
                  [query |-> NoQuery, header |-> <<"Basic ", "OnN2Yw==">>],
                  [query |-> StringQuery("k1"), header |-> NoHeader] },
   paths |-> Paths, minAccesses |-> MinAccesses, allows |-> BOOLEAN, bodies |-> Bodies,
   history |-> FALSE]

\* one request at a time, every form of the query and the header
AllRequests ==
  [reqs |-> {"r1"}, requests |-> HeaderRequests \cup QueryRequests,
   paths |-> {<<"a", "file">>}, minAccesses |-> MinAccesses, allows |-> BOOLEAN,
   bodies |-> {Key(resourceIamId, FALSE, FALSE, ""),
               Key(resourceIamId, TRUE, FALSE, "{access:write}"), Null},
   history |-> FALSE]

\* two requests in flight together, credentials in the Authorization header
Concurrent ==
  [reqs |-> Reqs, requests |-> HeaderRequests,
   paths |-> {<<"a", "file">>}, minAccesses |-> {"read"}, allows |-> {FALSE},
   bodies |-> {Key(resourceIamId, FALSE, FALSE, ""),
               Key(resourceIamId, TRUE, FALSE, "{access:write}"), Null},
   history |-> FALSE]

\* two requests in flight together with a credential each, and the history of
\* the provider's answers
Race ==
  [reqs |-> Reqs,
   requests |-> { [query |-> NoQuery, header |-> <<"Bearer ", "k1">>],
                  [query |-> NoQuery, header |-> <<"Basic ", "OnN2Yw==">>] },
   paths |-> {<<"a", "file">>}, minAccesses |-> {"read"}, allows |-> {FALSE},
   bodies |-> {Key(resourceIamId, FALSE, FALSE, "")},
   history |-> TRUE]

\* the slots in use and the inputs of the run
Env ==
  CASE env = "sequential" -> Sequential
    [] env = "requests" -> AllRequests
    [] env = "race" -> Race
    [] OTHER -> Concurrent

Idle ==
  [phase |-> "idle", query |-> NoQuery, header |-> NoHeader,
   path |-> <<>>, minAccess |-> "read", allowUnauthorized |-> FALSE,
   authInfo |-> NoAuthInfo, got |-> Undefined, outcome |-> "none",
   fresh |-> FALSE, calls |-> 0, hit |-> FALSE, wrote |-> FALSE,
   afterExpiry |-> FALSE, error |-> "none"]

Init ==
  /\ req = [r \in Reqs |-> Idle]
  /\ cache = <<>>
  /\ returned = {}
  /\ processEnv = NoProcessEnv
  /\ options = CacheOptions(NoProcessEnv)
  /\ env = "sequential"

InitRequests ==
  /\ req = [r \in Reqs |-> Idle]
  /\ cache = <<>>
  /\ returned = {}
  /\ processEnv = NoProcessEnv
  /\ options = CacheOptions(NoProcessEnv)
  /\ env = "requests"

InitConcurrent ==
  /\ req = [r \in Reqs |-> Idle]
  /\ cache = <<>>
  /\ returned = {}
  /\ processEnv = NoProcessEnv
  /\ options = CacheOptions(NoProcessEnv)
  /\ env = "concurrent"

InitRace ==
  /\ req = [r \in Reqs |-> Idle]
  /\ cache = <<>>
  /\ returned = {}
  /\ processEnv = NoProcessEnv
  /\ options = CacheOptions(NoProcessEnv)
  /\ env = "race"

\* the history after the provider answered the call for credential k with record v;
\* it is kept in the runs that ask for it
Answered(k, v) == IF Env.history THEN returned \cup {<<k, v>>} ELSE returned

\* lines 144-228 for the guard of slot r, once the record of its credential is known
Complete(r, apiKey) ==
  LET ai == Check(req[r].authInfo, apiKey, req[r].path, req[r].minAccess)
  IN  [req[r] EXCEPT !.authInfo = ai, !.got = Undefined, !.phase = "done",
                     !.outcome = Respond(ai, req[r].allowUnauthorized)]

(***************************************************************************)
(* A request arrives and its first guard runs up to `await memoryCache.get`*)
(* (lines 63-117), or to its end when no credential is extracted.          *)
(***************************************************************************)
Arrive(r) ==
  /\ r \in Env.reqs
  /\ req[r].phase = "idle"
  /\ UNCHANGED <<env, returned, processEnv, options>>
  /\ \E request \in Env.requests, path \in Env.paths,
        minAccess \in Env.minAccesses, allowUnauthorized \in Env.allows :
       LET ext == Extract(request.query, request.header)
           s0 == [Idle EXCEPT !.query = request.query, !.header = request.header,
                              !.path = path, !.minAccess = minAccess,
                              !.allowUnauthorized = allowUnauthorized,
                              !.fresh = TRUE]
           ai0 == [NoAuthInfo EXCEPT !.set = TRUE, !.type = ext.type]
           g == CacheGet(cache, ext.accessKey)
       IN  IF ext.accessKey = ""
           THEN /\ req' = [req EXCEPT ![r] =
                            [s0 EXCEPT !.authInfo = ai0, !.phase = "done",
                                       !.outcome = Respond(ai0, allowUnauthorized)]]
                /\ UNCHANGED cache
           ELSE /\ req' = [req EXCEPT ![r] =
                            [s0 EXCEPT !.authInfo = [ai0 EXCEPT !.accessKey = ext.accessKey],
                                       !.phase = "get", !.got = g.value,
                                       !.hit = (g.value # Undefined),
                                       !.afterExpiry = (Has(cache, ext.accessKey) /\
                                                        ~Live(cache, ext.accessKey))]]
                /\ cache' = g.cache

\* the get has resolved: on a hit the guard runs to its end, on a miss it calls fetch
AfterGet(r) ==
  /\ r \in Env.reqs
  /\ req[r].phase = "get"
  /\ IF req[r].got # Undefined
     THEN req' = [req EXCEPT ![r] = Complete(r, req[r].got)]
     ELSE req' = [req EXCEPT ![r] = [req[r] EXCEPT !.phase = "fetch", !.calls = @ + 1]]
  /\ UNCHANGED <<cache, env, returned, processEnv, options>>

\* fetch resolves with a response; a response that is not ok gives null (lines 131-141)
FetchResponds(r) ==
  /\ r \in Env.reqs
  /\ req[r].phase = "fetch"
  /\ UNCHANGED <<env, processEnv, options>>
  /\ \E ok \in BOOLEAN :
       IF ok
       THEN /\ req' = [req EXCEPT ![r] = [req[r] EXCEPT !.phase = "json"]]
            /\ UNCHANGED <<cache, returned>>
       ELSE /\ req' = [req EXCEPT ![r] = [Complete(r, Null) EXCEPT !.wrote = TRUE]]
            /\ cache' = CacheSet(cache, req[r].authInfo.accessKey, Null)
            /\ returned' = Answered(req[r].authInfo.accessKey, Null)

\* FetchFails that folds the failure into Invalid and caches it
FetchFailsAsInvalid(r) ==
  /\ r \in Env.reqs
  /\ req[r].phase = "fetch"
  /\ req' = [req EXCEPT ![r] = [Complete(r, Null) EXCEPT !.wrote = TRUE, !.error = "fetch"]]
  /\ cache' = CacheSet(cache, req[r].authInfo.accessKey, Null)
  /\ UNCHANGED <<env, returned, processEnv, options>>

\* fetch rejects: the guard's promise rejects at line 121
FetchFails(r) ==
  /\ r \in Env.reqs
  /\ req[r].phase = "fetch"
  /\ req' = [req EXCEPT ![r] = [req[r] EXCEPT !.phase = "failed", !.error = "fetch"]]
  /\ UNCHANGED <<cache, env, returned, processEnv, options>>

\* detailsResponse.json() resolves (lines 133-141)
JsonReturns(r) ==
  /\ r \in Env.reqs
  /\ req[r].phase = "json"
  /\ UNCHANGED <<env, processEnv, options>>
  /\ \E body \in Env.bodies :
       /\ req' = [req EXCEPT ![r] = [Complete(r, body) EXCEPT !.wrote = TRUE]]
       /\ cache' = CacheSet(cache, req[r].authInfo.accessKey, body)
       /\ returned' = Answered(req[r].authInfo.accessKey, body)

\* detailsResponse.json() rejects: the body is no JSON document
JsonFails(r) ==
  /\ r \in Env.reqs
  /\ req[r].phase = "json"
  /\ req' = [req EXCEPT ![r] = [req[r] EXCEPT !.phase = "failed", !.error = "json"]]
  /\ UNCHANGED <<cache, env, returned, processEnv, options>>

\* NextGuard that computes the access again for its own minAccess
NextGuardRecomputing(r) ==
  /\ r \in Env.reqs
  /\ req[r].phase = "done"
  /\ req[r].outcome = "next"
  /\ \E minAccess \in Env.minAccesses, allowUnauthorized \in Env.allows :
       LET ai == IF req[r].authInfo.accessKey = Absent THEN req[r].authInfo
                 ELSE Check([req[r].authInfo EXCEPT !.access = "none"],
                            req[r].authInfo.apiKey, req[r].path, minAccess)
       IN  req' = [req EXCEPT ![r] =
                    [req[r] EXCEPT !.minAccess = minAccess,
                                   !.allowUnauthorized = allowUnauthorized,
                                   !.fresh = FALSE, !.authInfo = ai,
                                   !.outcome = Respond(ai, allowUnauthorized)]]
  /\ UNCHANGED <<cache, env, returned, processEnv, options>>

\* next() was called and the route has a further guard: it finds request.authInfo
NextGuard(r) ==
  /\ r \in Env.reqs
  /\ req[r].phase = "done"
  /\ req[r].outcome = "next"
  /\ \E minAccess \in Env.minAccesses, allowUnauthorized \in Env.allows :
       req' = [req EXCEPT ![r] =
                [req[r] EXCEPT !.minAccess = minAccess,
                               !.allowUnauthorized = allowUnauthorized,
                               !.fresh = FALSE,
                               !.outcome = Respond(req[r].authInfo, allowUnauthorized)]]
  /\ UNCHANGED <<cache, env, returned, processEnv, options>>

\* the request is over
Release(r) ==
  /\ r \in Env.reqs
  /\ req[r].phase \in {"done", "failed"}
  /\ req' = [req EXCEPT ![r] = Idle]
  /\ UNCHANGED <<cache, env, returned, processEnv, options>>

\* time passes: the ttl of an entry elapses
Expire ==
  /\ \E i \in 1..Len(cache) :
       /\ ~Stale(cache[i])
       /\ cache' = [cache EXCEPT ![i].stale = TRUE]
  /\ UNCHANGED <<req, env, returned, processEnv, options>>

\* the ttlAutopurge timer of a stale entry fires
Purge ==
  /\ \E i \in 1..Len(cache) :
       /\ Stale(cache[i])
       /\ cache' = Without(cache, cache[i].key)
  /\ UNCHANGED <<req, env, returned, processEnv, options>>

Next ==
  \/ \E r \in Reqs :
       \/ Arrive(r) \/ AfterGet(r) \/ FetchResponds(r) \/ FetchFails(r)
       \/ JsonReturns(r) \/ JsonFails(r) \/ NextGuard(r) \/ Release(r)
  \/ Expire
  \/ Purge

Spec == Init /\ [][Next]_vars

SpecRequests == InitRequests /\ [][Next]_vars

SpecConcurrent == InitConcurrent /\ [][Next]_vars

SpecRace == InitRace /\ [][Next]_vars

\* the module is loaded: memoryCache is created from process.env (lines 12-18)
InitConfig ==
  /\ req = [r \in Reqs |-> Idle]
  /\ cache = <<>>
  /\ returned = {}
  /\ env = "sequential"
  /\ processEnv \in [AUTH_CACHE_SIZE : EnvValues, AUTH_CATCH_TTL_MINUTES : EnvValues]
  /\ options = NotCreated

CreateCache ==
  /\ ~options.created
  /\ options' = CacheOptions(processEnv)
  /\ UNCHANGED <<req, cache, env, returned, processEnv>>

NextConfig == CreateCache

SpecConfig == InitConfig /\ [][NextConfig]_vars

\* the event loop runs the continuation of a settled await: the cache read
\* resolves, and the reading of a response's body ends one way or the other;
\* whether fetch ever settles is the provider's affair
Fairness ==
  \A r \in Reqs :
    /\ WF_vars(AfterGet(r))
    /\ WF_vars(JsonReturns(r) \/ JsonFails(r))

SpecLive == InitConcurrent /\ [][Next]_vars /\ Fairness


(***************************************************************************)
(* Properties.                                                              *)
(***************************************************************************)
Done(r) == req[r].phase = "done"
AI(r) == req[r].authInfo
HasCredential(r) == AI(r).accessKey # Absent
ServiceCredential(r) == AI(r).accessKey = serviceApiKey

\* the record of the slot's credential passes step 5
AcceptedRecord(r) ==
  /\ AI(r).apiKey.kind = "key"
  /\ ~AI(r).apiKey.locked
  /\ ~AI(r).apiKey.disabled
  /\ (ServiceCredential(r) \/ AI(r).apiKey.iam_id = resourceIamId)

\* the access the credential asks for (step 7)
Requested(r) ==
  IF ServiceCredential(r) THEN "write"
  ELSE IF AI(r).settings.kind = "object" /\ AI(r).settings.access # "undefined"
       THEN AI(r).settings.access
  ELSE "read"

\* the access a guard with this minAccess accepts
Satisfies(r, minAccess) ==
  CASE minAccess = "owner" -> ServiceCredential(r)
    [] minAccess = "write" -> AI(r).access = "write"
    [] OTHER -> AI(r).access \in {"read", "write"}

\* C1: every guard with allowUnauthorized = false, the first on a request or a
\* later one, calls next() only if the request's access satisfies its own
\* minAccess: the owner for "owner", write for "write", read or write for "read".
C1_EveryGuardChecksItsMinAccess ==
  \A r \in Reqs :
    (Done(r) /\ ~req[r].allowUnauthorized /\ req[r].outcome = "next")
      => Satisfies(r, req[r].minAccess)

\* the conjunction of the include and the exclude condition
IncludeSatisfied(m, path) ==
  Len(m.inc) = 0 \/ \E i \in 1..Len(m.inc) : Match(m.inc[i], path)
ExcludeSatisfied(m, path) ==
  Len(m.exc) = 0 \/ ~ \E j \in 1..Len(m.exc) : Match(m.exc[j], path)

\* C2: for a non-owner credential with include and/or exclude patterns,
\* pathAllowed(path) is true exactly when the include condition and the exclude
\* condition both hold, and a request whose path is not allowed that way ends
\* with access "none".
C2_PathAllowedIsConjunction ==
  \A r \in Reqs :
    AI(r).match.kind = "rules" =>
      /\ \A p \in Paths :
           PathAllowed(AI(r).match, p)
             <=> (IncludeSatisfied(AI(r).match, p) /\ ExcludeSatisfied(AI(r).match, p))
      /\ (Done(r) /\ ~(IncludeSatisfied(AI(r).match, req[r].path) /\
                       ExcludeSatisfied(AI(r).match, req[r].path)))
           => AI(r).access = "none"

\* C3 as stated: a fresh guard on a request bearing the service credential
\* stores access "write", calls next() and allows every path, whatever the
\* record of the credential is.
C3_ServiceCredentialAlwaysOwner ==
  \A r \in Reqs :
    (Done(r) /\ req[r].fresh /\ ServiceCredential(r)) =>
      /\ AI(r).access = "write"
      /\ req[r].outcome = "next"
      /\ \A p \in Paths : PathAllowed(AI(r).match, p)

\* C3: a fresh guard on a request bearing the service credential whose record
\* is a key that is neither locked nor disabled stores access "write", calls
\* next() for every minAccess and allows every path, whatever the settings in
\* the record's description and whatever its iam_id.
C3_AcceptedServiceCredentialIsOwner ==
  \A r \in Reqs :
    (Done(r) /\ req[r].fresh /\ ServiceCredential(r) /\ AcceptedRecord(r)) =>
      /\ AI(r).access = "write"
      /\ req[r].outcome = "next"
      /\ \A p \in Paths : PathAllowed(AI(r).match, p)

C3_Witness ==
  \E r \in Reqs :
    /\ Done(r) /\ req[r].fresh /\ ServiceCredential(r) /\ AcceptedRecord(r)
    /\ AI(r).apiKey.description = "{include:[a/*],exclude:[a/secret/*]}"
    /\ req[r].path = <<"a", "secret", "file">>
    /\ req[r].minAccess = "owner" /\ ~req[r].allowUnauthorized
    /\ req[r].outcome = "next"

\* verification rejects the record of the slot's credential
RejectedRecord(r) ==
  \/ AI(r).apiKey.kind = "null"
  \/ /\ AI(r).apiKey.kind = "key"
     /\ \/ AI(r).apiKey.locked
        \/ AI(r).apiKey.disabled
        \/ (~ServiceCredential(r) /\ AI(r).apiKey.iam_id # resourceIamId)

\* C4: a guard with allowUnauthorized = false on a request whose credential is
\* rejected by verification (Invalid, locked, disabled, or not the owner and a
\* foreign iam_id) leaves access "none" and answers 403, whether the record
\* came from the provider or from the cache.
C4_RejectedCredentialIs403 ==
  \A r \in Reqs :
    (Done(r) /\ HasCredential(r) /\ RejectedRecord(r)) =>
      /\ AI(r).access = "none"
      /\ ~req[r].allowUnauthorized => req[r].outcome = "403"

C4_Witness ==
  \E r \in Reqs :
    /\ Done(r) /\ req[r].hit /\ ~req[r].allowUnauthorized
    /\ AI(r).apiKey.kind = "key" /\ AI(r).apiKey.locked
    /\ AI(r).access = "none" /\ req[r].outcome = "403"

NoCredentialPresented(r) ==
  req[r].phase # "idle" /\ req[r].query.t = "undefined" /\ req[r].header = NoHeader

\* C5: a request with no Authorization header and no accessKey query parameter
\* gets an authInfo with access "none" and no credential, and a guard with
\* allowUnauthorized = false answers it 401.
C5_NoCredentialIs401 ==
  \A r \in Reqs :
    NoCredentialPresented(r) =>
      /\ Done(r)
      /\ AI(r).set /\ AI(r).access = "none" /\ AI(r).accessKey = Absent
      /\ ~req[r].allowUnauthorized => req[r].outcome = "401"

C5_Witness ==
  \E r \in Reqs :
    NoCredentialPresented(r) /\ ~req[r].allowUnauthorized /\ req[r].outcome = "401"

\* the table of step 10
Step10(minAccess, owner, requested) ==
  CASE minAccess = "owner" /\ ~owner -> "none"
    [] minAccess = "owner" /\ owner -> requested
    [] minAccess = "write" -> IF requested = "write" THEN "write" ELSE "none"
    [] OTHER -> requested

\* the guard computed the authInfo, the record passed step 5, the requested
\* access is read or write and the path matched
ReachedStep10(r) ==
  /\ Done(r) /\ req[r].fresh /\ HasCredential(r) /\ AcceptedRecord(r)
  /\ Requested(r) \in {"read", "write"}
  /\ AI(r).match.kind # "undefined"
  /\ PathAllowed(AI(r).match, req[r].path)

\* C6: on a request without a computed authInfo, for an accepted record whose
\* path matches, the access stored follows the table of step 10; a denied
\* request is answered 403 by a guard with allowUnauthorized = false.
C6_FinalAccessFollowsStep10 ==
  \A r \in Reqs :
    ReachedStep10(r) =>
      /\ AI(r).access = Step10(req[r].minAccess, ServiceCredential(r), Requested(r))
      /\ (AI(r).access = "none" /\ ~req[r].allowUnauthorized) => req[r].outcome = "403"
      /\ (Requested(r) = "read" /\ req[r].minAccess = "write") => AI(r).access = "none"
      /\ (~ServiceCredential(r) /\ req[r].minAccess = "owner") => AI(r).access = "none"

C6_Witness ==
  \E r \in Reqs :
    /\ ReachedStep10(r) /\ ~ServiceCredential(r)
    /\ Requested(r) = "read" /\ req[r].minAccess = "write"
    /\ ~req[r].allowUnauthorized /\ req[r].outcome = "403"

\* C7: an accepted record of a non-owner whose description is not JSON does not
\* reject the request: no settings are stored, the requested access is "read",
\* every path is allowed, and a guard with minAccess "read" calls next().
C7_BadSettingsAreNoSettings ==
  \A r \in Reqs :
    (Done(r) /\ req[r].fresh /\ HasCredential(r) /\ ~ServiceCredential(r) /\
     AcceptedRecord(r) /\ AI(r).apiKey.description = "not json") =>
      /\ AI(r).settings = NoSettings
      /\ AI(r).match.kind = "always"
      /\ \A p \in Paths : PathAllowed(AI(r).match, p)
      /\ req[r].minAccess = "read" => (AI(r).access = "read" /\ req[r].outcome = "next")
      /\ req[r].minAccess # "read" => AI(r).access = "none"

C7_Witness ==
  \E r \in Reqs :
    /\ Done(r) /\ req[r].fresh /\ ~ServiceCredential(r) /\ AcceptedRecord(r)
    /\ AI(r).apiKey.description = "not json"
    /\ req[r].minAccess = "read" /\ ~req[r].allowUnauthorized
    /\ req[r].path = <<"b", "file">>
    /\ AI(r).access = "read" /\ req[r].outcome = "next"


\* the step in which the guard of slot r reads the cache for credential k
Reads(r, k) ==
  req[r].phase = "idle" /\ req'[r].phase = "get" /\ req'[r].authInfo.accessKey = k

\* C8: a request that reads the cache while it holds a live entry for its
\* credential obtains the value of that entry, uses it as its record and never
\* calls the provider.
C8_LiveEntryIsServedFromCache ==
  [][\A r \in Reqs :
       /\ \A k \in Keys :
            (Reads(r, k) /\ Has(cache, k) /\ ~Entry(cache, k).stale)
              => /\ req'[r].got = Entry(cache, k).value
                 /\ req'[r].hit
       /\ (req[r].phase = "get" /\ req[r].got # Undefined /\ req'[r] # req[r])
            => /\ req'[r].phase = "done"
               /\ req'[r].authInfo.apiKey = req[r].got
               /\ cache' = cache
       /\ req'[r].hit => req'[r].calls = 0
    ]_vars

C8_Witness ==
  \E r \in Reqs :
    /\ Done(r) /\ req[r].hit /\ req[r].calls = 0
    /\ AI(r).apiKey.kind = "key" /\ req[r].outcome = "next"
    /\ Has(cache, AI(r).accessKey)
    /\ Entry(cache, AI(r).accessKey).value = AI(r).apiKey

\* C9: a request that reads the cache when the entry of its credential has
\* outlived its ttl misses, calls the provider exactly once, and the result of
\* that call is stored as a fresh entry for the credential.
C9_ExpiredEntryIsFetchedOnce ==
  [][\A r \in Reqs :
       /\ \A k \in Keys :
            (Reads(r, k) /\ Has(cache, k) /\ Entry(cache, k).stale)
              => /\ req'[r].got = Undefined
                 /\ ~req'[r].hit
                 /\ req'[r].afterExpiry
                 /\ ~Has(cache', k)
       /\ (req[r].phase = "get" /\ req[r].got = Undefined /\ req'[r] # req[r])
            => (req'[r].phase = "fetch" /\ req'[r].calls = 1)
       /\ (req[r].phase \in {"fetch", "json"}) => req'[r].calls \in {0, 1}
       /\ (req[r].phase \in {"fetch", "json"} /\ req'[r].phase \in {"json", "done", "failed"})
            => req'[r].calls = 1
       /\ (req[r].phase \in {"fetch", "json"} /\ req'[r].phase = "done")
            => /\ cache' # <<>>
               /\ cache'[Len(cache')] = [key |-> req[r].authInfo.accessKey,
                                         value |-> req'[r].authInfo.apiKey,
                                         stale |-> FALSE]
    ]_vars

C9_Witness ==
  \E r \in Reqs :
    /\ Done(r) /\ req[r].afterExpiry /\ req[r].calls = 1 /\ req[r].wrote
    /\ Has(cache, AI(r).accessKey)
    /\ ~Entry(cache, AI(r).accessKey).stale
    /\ Entry(cache, AI(r).accessKey).value = AI(r).apiKey

\* C10: when the fetch of a guard rejects, nothing is written to the cache, the
\* guard ends without 401, 403 or next() and does nothing more, and a request
\* that then finds no entry for the credential calls the provider.
C10_TransportFailureWritesNothing ==
  [][\A r \in Reqs :
       /\ (req[r].error = "none" /\ req'[r].error = "fetch")
            => /\ req[r].phase = "fetch"
               /\ req'[r].phase = "failed"
               /\ cache' = cache
               /\ req'[r].outcome = "none"
               /\ req'[r].authInfo = req[r].authInfo
               /\ ~req'[r].wrote
       /\ (req[r].phase = "failed" /\ req'[r] # req[r]) => req'[r] = Idle
       /\ \A k \in Keys :
            (Reads(r, k) /\ ~Has(cache, k)) => (req'[r].got = Undefined /\ req'[r].calls = 0)
       /\ (req[r].phase = "get" /\ req[r].got = Undefined /\ req'[r] # req[r])
            => (req'[r].phase = "fetch" /\ req'[r].calls = 1)
    ]_vars

C10_Witness ==
  \E r, q \in Reqs :
    /\ req[r].phase = "failed" /\ req[r].error = "fetch" /\ req[r].outcome = "none"
    /\ ~Has(cache, AI(r).accessKey)
    /\ req[q].phase = "fetch" /\ req[q].calls = 1
    /\ AI(q).accessKey = AI(r).accessKey


\* the calls among forbidden(), unauthorized() and next() the guard of slot r made
Produced(r) == { o \in {"401", "403", "next"} : req[r].outcome = o }

\* C11: a guard that ran to its end made exactly one of the three calls: 401,
\* 403 or next(); with allowUnauthorized = false and access "none" it is 401
\* exactly when the authInfo holds no credential and 403 exactly when it holds
\* one, and with any other access or allowUnauthorized = true it is next().
C11_ExactlyOneOutcome ==
  \A r \in Reqs :
    Done(r) =>
      /\ Cardinality(Produced(r)) = 1
      /\ (AI(r).access = "none" /\ ~req[r].allowUnauthorized) =>
           /\ req[r].outcome = "401" <=> ~HasCredential(r)
           /\ req[r].outcome = "403" <=> HasCredential(r)
      /\ ~(AI(r).access = "none" /\ ~req[r].allowUnauthorized) => req[r].outcome = "next"

\* a later guard, after a guard that let the request pass unauthorized, answers 401
C11_Witness ==
  \E r \in Reqs :
    /\ Done(r) /\ ~req[r].fresh /\ ~req[r].allowUnauthorized
    /\ AI(r).access = "none" /\ ~HasCredential(r)
    /\ req[r].outcome = "401"

InFlight(r, k) == req[r].phase \in {"fetch", "json"} /\ AI(r).accessKey = k

\* the record is an answer the provider gave for credential k
ReturnedFor(k, v) == <<k, v>> \in returned

\* C13: nothing joins the provider calls of two requests with the same
\* credential: a request that missed calls the provider whatever the other
\* request is doing, every call that returns writes its own result as the
\* newest entry of the credential (the last write wins), and at all times the
\* entry stored for a credential, the value a request read from the cache and
\* the record a request used are answers the provider gave for that credential.
C13_ConcurrentMissesBothFetch ==
  /\ [](\A k \in Keys :
         /\ Has(cache, k) => ReturnedFor(k, Entry(cache, k).value)
         /\ \A r \in Reqs :
              AI(r).accessKey = k =>
                /\ req[r].got # Undefined => ReturnedFor(k, req[r].got)
                /\ AI(r).apiKey # Undefined => ReturnedFor(k, AI(r).apiKey))
  /\ [][\A r \in Reqs :
         /\ (req[r].phase = "get" /\ req[r].got = Undefined /\ req'[r] # req[r])
              => (req'[r].phase = "fetch" /\ req'[r].calls = 1)
         /\ (req[r].phase \in {"fetch", "json"} /\ req'[r].phase = "done")
              => /\ Has(cache', AI(r).accessKey)
                 /\ Entry(cache', AI(r).accessKey) =
                      [key |-> AI(r).accessKey, value |-> req'[r].authInfo.apiKey,
                       stale |-> FALSE]
                 /\ returned' = returned \cup {<<AI(r).accessKey, req'[r].authInfo.apiKey>>}
      ]_vars

\* two provider calls in flight for one credential, none of them cached yet
C13_Witness ==
  \E k \in Keys :
    /\ InFlight("r1", k) /\ InFlight("r2", k)
    /\ req["r1"].calls = 1 /\ req["r2"].calls = 1
    /\ ~Has(cache, k)


\* the step of a later guard on the request of slot r
LaterGuard(r) == req[r].phase = "done" /\ req'[r].phase = "done" /\ req'[r] # req[r]

\* C14: the authInfo of a request is computed once: a later guard on the
\* request reads no cache entry, calls no provider and leaves every field of
\* the authInfo (type, accessKey, apiKey, settings, access, match) as the first
\* guard left it; only a first guard on a request without authInfo computes one.
C14_AuthInfoComputedOnce ==
  [][\A r \in Reqs :
       /\ LaterGuard(r) =>
            /\ req'[r].authInfo = req[r].authInfo
            /\ cache' = cache
            /\ returned' = returned
            /\ req'[r].calls = req[r].calls
            /\ req'[r].got = req[r].got /\ req'[r].hit = req[r].hit
            /\ req'[r].wrote = req[r].wrote
            /\ ~req'[r].fresh
       /\ (req[r].authInfo.set /\ req'[r].authInfo # req[r].authInfo /\ req'[r] # Idle)
            => (req[r].fresh /\ req[r].phase # "done" /\ req'[r].phase = "done")
       /\ req'[r].calls \in {0, 1}
    ]_vars

\* a guard asking for the owner ran after the guard that computed access "read"
C14_Witness ==
  \E r \in Reqs :
    /\ Done(r) /\ ~req[r].fresh /\ req[r].calls = 1 /\ req[r].wrote
    /\ req[r].minAccess = "owner" /\ ~ServiceCredential(r)
    /\ AI(r).access = "read" /\ AI(r).match.kind = "rules"


\* C15: a step of the chain that fails leaves access "none" and ends the chain
\* without an exception.  A request from which no non-empty credential is
\* extracted goes to its outcome in the step it arrives in, with no cache read,
\* no provider call and no cache write, and its authInfo has no record, no
\* settings and no matcher.  A request whose record is rejected at step 5 has
\* no settings and no matcher in its authInfo; one whose requested access is
\* not read or write has no matcher; one whose path is not allowed has access
\* "none".
C15_FailedStepSkipsTheRest ==
  /\ [](\A r \in Reqs :
         Done(r) =>
           /\ req[r].error = "none"
           /\ ~HasCredential(r) =>
                /\ AI(r).access = "none"
                /\ req[r].calls = 0 /\ ~req[r].hit /\ ~req[r].wrote
                /\ AI(r).apiKey = Undefined
                /\ AI(r).settings = NoSettings /\ AI(r).match = NoMatch
           /\ (HasCredential(r) /\ RejectedRecord(r)) =>
                /\ AI(r).access = "none"
                /\ AI(r).settings = NoSettings /\ AI(r).match = NoMatch
           /\ (HasCredential(r) /\ AcceptedRecord(r) /\
               ~(Requested(r) \in {"read", "write"})) =>
                (AI(r).access = "none" /\ AI(r).match = NoMatch)
           /\ (HasCredential(r) /\ AI(r).match.kind = "rules" /\
               ~PathAllowed(AI(r).match, req[r].path)) => AI(r).access = "none")
  /\ [][\A r \in Reqs :
         (req[r].phase = "idle" /\ req'[r].phase # "idle") =>
           IF req'[r].authInfo.accessKey = Absent
           THEN req'[r].phase = "done" /\ cache' = cache /\ returned' = returned
           ELSE req'[r].phase = "get"
      ]_vars

\* a disabled record with parseable settings, fetched from the provider
C15_Witness ==
  \E r \in Reqs :
    /\ Done(r) /\ req[r].fresh /\ req[r].calls = 1
    /\ AI(r).apiKey.kind = "key" /\ AI(r).apiKey.disabled
    /\ AI(r).apiKey.description = "{access:write}"
    /\ AI(r).settings = NoSettings /\ AI(r).match = NoMatch
    /\ AI(r).access = "none" /\ req[r].outcome = "403"


\* the matcher has include and exclude patterns and none of either matches the path
NothingMatches(m, path) ==
  /\ m.kind = "rules" /\ Len(m.inc) > 0 /\ Len(m.exc) > 0
  /\ ~ \E i \in 1..Len(m.inc) : Match(m.inc[i], path)
  /\ ~ \E j \in 1..Len(m.exc) : Match(m.exc[j], path)

\* C16: for a credential that is not the owner and has include and exclude
\* patterns, a path that no include pattern and no exclude pattern matches is
\* allowed: the matcher returns true for it, and the guard that computed the
\* authInfo on a request for such a path goes on to the access decision and
\* stores the access step 10 gives.
C16_UnmatchedPathIsGranted ==
  \A r \in Reqs :
    (Done(r) /\ HasCredential(r) /\ ~ServiceCredential(r) /\ req[r].fresh) =>
      /\ \A p \in Paths : NothingMatches(AI(r).match, p) => PathAllowed(AI(r).match, p)
      /\ NothingMatches(AI(r).match, req[r].path) =>
           /\ AI(r).access = Step10(req[r].minAccess, FALSE, Requested(r))
           /\ req[r].minAccess = "read" => (AI(r).access = "read" /\ req[r].outcome = "next")

\* b/file against include a/* and exclude a/secret/*: granted read
C16_Witness ==
  \E r \in Reqs :
    /\ Done(r) /\ req[r].fresh /\ ~ServiceCredential(r) /\ ~req[r].allowUnauthorized
    /\ AI(r).match.inc = << <<"a", "*">> >> /\ AI(r).match.exc = << <<"a", "secret", "*">> >>
    /\ req[r].path = <<"b", "file">>
    /\ NothingMatches(AI(r).match, req[r].path)
    /\ AI(r).access = "read" /\ req[r].outcome = "next"


\* the request of slot r presents an empty credential: an empty accessKey
\* parameter, or no string parameter and an empty Bearer token or an empty
\* Basic password ("dXNlcjo=" is "user:")
EmptyCredential(r) ==
  \/ req[r].query = StringQuery("")
  \/ /\ req[r].query.t # "string"
     /\ req[r].header \in {<<"Bearer ", "">>, <<"Basic ", "dXNlcjo=">>}

\* C17: with a string accessKey parameter the source is the query and the
\* credential is its value, whatever the Authorization header is; without one
\* the source is the header.  An empty credential is no credential: the guard
\* ends in the step the request arrives in, with access "none", no credential
\* in the authInfo, no provider call and 401, even when the request also has an
\* Authorization header with a valid credential.
C17_QueryParameterTakesPrecedence ==
  \A r \in Reqs :
    req[r].phase # "idle" =>
      /\ req[r].query.t = "string" =>
           /\ AI(r).type = "accessKey"
           /\ AI(r).accessKey = (IF req[r].query.v = "" THEN Absent ELSE req[r].query.v)
      /\ req[r].query.t # "string" =>
           /\ AI(r).type = "authHeader"
           /\ req[r].header = <<"Bearer ", "k1">> => AI(r).accessKey = "k1"
           /\ req[r].header = <<"Basic ", "dXNlcjprMQ==">> => AI(r).accessKey = "k1"
      /\ EmptyCredential(r) =>
           /\ Done(r)
           /\ AI(r).access = "none" /\ AI(r).accessKey = Absent
           /\ AI(r).apiKey = Undefined /\ req[r].calls = 0
           /\ ~req[r].allowUnauthorized => req[r].outcome = "401"

\* an empty accessKey parameter beside a Bearer header with a credential: 401
C17_Witness ==
  \E r \in Reqs :
    /\ req[r].query = StringQuery("") /\ req[r].header = <<"Bearer ", "k1">>
    /\ Done(r) /\ ~req[r].allowUnauthorized
    /\ AI(r).accessKey = Absent /\ req[r].outcome = "401"


\* C18: the access in an authInfo is always "none", "read" or "write".  What
\* the guard that computed it stores is "none" or the requested access: "write"
\* for the owner, otherwise the access of the settings or "read" when they name
\* none.  A record of a credential that is not the owner whose settings name
\* any other access leaves access "none" and the guard answers 403.
C18_AccessIsNoneReadOrWrite ==
  \A r \in Reqs :
    /\ AI(r).access \in {"none", "read", "write"}
    /\ (Done(r) /\ HasCredential(r) /\ AcceptedRecord(r)) =>
         /\ AI(r).access \in {"none", Requested(r)}
         /\ ServiceCredential(r) => Requested(r) = "write"
         /\ (req[r].fresh /\ req[r].minAccess = "read" /\ Requested(r) \in {"read", "write"}
             /\ PathAllowed(AI(r).match, req[r].path)) => AI(r).access = Requested(r)
         /\ (~ServiceCredential(r) /\ AI(r).settings.kind = "object" /\
             ~(AI(r).settings.access \in {"undefined", "read", "write"})) =>
              /\ AI(r).access = "none"
              /\ (req[r].fresh /\ ~req[r].allowUnauthorized) => req[r].outcome = "403"

\* settings that name the access "admin": 403
C18_Witness ==
  \E r \in Reqs :
    /\ Done(r) /\ req[r].fresh /\ ~ServiceCredential(r) /\ AcceptedRecord(r)
    /\ AI(r).settings.access = "admin"
    /\ ~req[r].allowUnauthorized
    /\ AI(r).access = "none" /\ req[r].outcome = "403"


\* the guard of slot r is between its cache read and its outcome
Pending(r) == req[r].phase \in {"get", "fetch", "json"}

\* every provider call in flight gets a response: no fetch rejects, none hangs
EveryCallGetsAResponse ==
  /\ [](\A r \in Reqs : req[r].error # "fetch")
  /\ \A r \in Reqs : req[r].phase = "fetch" ~> req[r].phase \in {"json", "done"}

\* every guard that started reaches 401, 403 or next()
EveryGuardEnds ==
  /\ [](\A r \in Reqs : req[r].phase # "failed")
  /\ \A r \in Reqs : Pending(r) ~> (Done(r) /\ req[r].outcome \in {"401", "403", "next"})

\* C19: a guard whose provider call is in flight has no outcome, and if every
\* provider call eventually gets a response then every guard that started
\* eventually produces an outcome, 401, 403 or next().
C19_EveryGuardEndsWithAnOutcome ==
  /\ [](\A r \in Reqs : Pending(r) => req[r].outcome = "none")
  /\ EveryCallGetsAResponse => EveryGuardEnds


\* the variable is set to the decimal text of an integer
IntegerText(v) == v.t = "string" /\ v.text \in {"1", "5", "10", "2000"}

IntegerOf(v) ==
  CASE v.text = "1" -> 1 [] v.text = "5" -> 5 [] v.text = "10" -> 10 [] OTHER -> 2000

\* C20: memoryCache is created with the maximum that AUTH_CACHE_SIZE spells and
\* the ttl, in minutes, that the ttl variable spells when they are set to
\* integers, and with 1000 entries and 10 minutes when they are unset or no
\* integers.
C20_CacheSizeAndTtlAreConfigurable ==
  options.created =>
    /\ options.max = (IF IntegerText(processEnv.AUTH_CACHE_SIZE)
                      THEN IntegerOf(processEnv.AUTH_CACHE_SIZE) ELSE 1000)
    /\ options.ttl = (IF IntegerText(processEnv.AUTH_CATCH_TTL_MINUTES)
                      THEN IntegerOf(processEnv.AUTH_CATCH_TTL_MINUTES) ELSE 10) * 60 * 1000

=============================================================================
